---- MODULE Spec2Model ----
(***************************************************************************)
(* 57north-bank: the command dispatcher (src/src/main.rs), the ledger      *)
(* store (src/src/db.rs) and the barcode codec (src/src/barcode.rs).       *)
(*                                                                         *)
(* Text is a sequence of one-character strings, so that parsing, splitting *)
(* and formatting are computed and not assumed.                            *)
(*                                                                         *)
(* Money: the code keeps prices, totals and amounts in u32 and balances in *)
(* i32.  The model counts money in units of 2^(32 - MoneyBits) pence: on   *)
(* multiples of that unit the 32-bit arithmetic of the code (wrapping      *)
(* casts included) is exactly MoneyBits-bit arithmetic on the unit counts. *)
(* Arithmetic that overflows is modelled as it wraps in a release build (a *)
(* build with overflow checks panics there instead; the `as` casts wrap in *)
(* every build).                                                           *)
(*                                                                         *)
(* Timestamps (Utc::now()) are left out; of the terminal output the model  *)
(* keeps the last message of the dispatcher.                               *)
(***************************************************************************)
EXTENDS Integers, Sequences, FiniteSets, TLC

(***************************************************************************)
(* Bounds of the model.                                                    *)
(***************************************************************************)
\* width, in bits, of the money words (the unit is 2^(32 - MoneyBits) pence)
MoneyBits == 10
\* lines the operator types in one run
MaxLines == 3
\* cards the scanner reads in one run
MaxScans == 3
\* load/save failures of the backing file in one run
MaxIOFail == 1
\* transactions in the log, when the ledger operations are called directly
MaxLog == 2
\* products in a cart, when the ledger operations are called directly
MaxCart == 2
\* card bindings in the ledger, when the ledger operations are called directly
MaxCards == 2

\* lines handed to the dispatcher when it runs on its own
MaxCmds == 3

\* longest text handed to the barcode parser when it runs on its own
MaxCodeLen == 15

(***************************************************************************)
(* Text.                                                                   *)
(***************************************************************************)
DigitChars == <<"0", "1", "2", "3", "4", "5", "6", "7", "8", "9">>

None == [some |-> FALSE]

Some(x) == [some |-> TRUE, v |-> x]

\* char::to_digit(10)
to_digit(c) ==
    IF \E i \in 1..10 : DigitChars[i] = c
    THEN Some((CHOOSE i \in 1..10 : DigitChars[i] = c) - 1)
    ELSE None

\* u8::to_string(): decimal, no leading zeros
to_string(b) ==
    IF b < 10 THEN <<DigitChars[b + 1]>>
    ELSE IF b < 100 THEN <<DigitChars[(b \div 10) + 1], DigitChars[(b % 10) + 1]>>
    ELSE <<DigitChars[(b \div 100) + 1], DigitChars[((b \div 10) % 10) + 1],
           DigitChars[(b % 10) + 1]>>

RECURSIVE Concat(_)
\* Iterator::collect::<String>() of a sequence of texts
Concat(ss) ==
    IF ss = <<>> THEN <<>> ELSE Head(ss) \o Concat(Tail(ss))

\* card_id.into_iter().map(|b| b.to_string()).collect::<String>()
uid_string(card_id) ==
    Concat([i \in 1..Len(card_id) |-> to_string(card_id[i])])

RECURSIVE split_from(_, _, _)
split_from(buf, i, word) ==
    IF i > Len(buf)
    THEN IF word = <<>> THEN <<>> ELSE <<word>>
    ELSE IF buf[i] = " "
         THEN IF word = <<>> THEN split_from(buf, i + 1, <<>>)
              ELSE <<word>> \o split_from(buf, i + 1, <<>>)
         ELSE split_from(buf, i + 1, Append(word, buf[i]))

\* str::split_whitespace()
split_whitespace(buf) == split_from(buf, 1, <<>>)

RECURSIVE join(_)
\* [&str]::join(" ")
join(words) ==
    IF words = <<>> THEN <<>>
    ELSE IF Len(words) = 1 THEN words[1]
    ELSE words[1] \o <<" ">> \o join(Tail(words))

(***************************************************************************)
(* Money words.                                                            *)
(***************************************************************************)
U32Mod == 2 ^ MoneyBits

I32Min == 0 - (2 ^ (MoneyBits - 1))

I32Max == (2 ^ (MoneyBits - 1)) - 1

\* u32 arithmetic, wrapping
WrapU32(x) == x % U32Mod

\* i32 arithmetic, wrapping
WrapI32(x) == ((x - I32Min) % U32Mod) + I32Min

\* `x as i32` of a u32
AsI32(x) == IF x > I32Max THEN x - U32Mod ELSE x

RECURSIVE SumSeq(_)
SumSeq(s) == IF s = <<>> THEN 0 ELSE Head(s) + SumSeq(Tail(s))

(***************************************************************************)
(* Barcodes (barcode.rs).                                                  *)
(***************************************************************************)
\* int_digits: every character a decimal digit, or no match
int_digits(input) ==
    IF \A i \in 1..Len(input) : to_digit(input[i]).some
    THEN Some([i \in 1..Len(input) |-> to_digit(input[i]).v])
    ELSE None

try_parse(input) ==
    LET barcode_digits == int_digits(input) IN
    IF ~barcode_digits.some THEN None
    ELSE LET n == Len(barcode_digits.v) IN
         IF n = 13 THEN Some([kind |-> "Ean13", digits |-> barcode_digits.v])
         ELSE IF n = 12 THEN Some([kind |-> "UpcA", digits |-> barcode_digits.v])
         ELSE IF n = 8 THEN Some([kind |-> "Ean8", digits |-> barcode_digits.v])
         ELSE IF n = 6 THEN Some([kind |-> "UpcE", digits |-> barcode_digits.v])
         ELSE None

\* impl Display for Barcode: the symbology's label, then the digits
Display(barcode) ==
    LET label == IF barcode.kind = "Ean13"
                 THEN <<"E", "A", "N", "-", "1", "3", ":", " ">>
                 ELSE IF barcode.kind = "Ean8"
                 THEN <<"E", "A", "N", "-", "8", ":", " ">>
                 ELSE IF barcode.kind = "UpcA"
                 THEN <<"U", "P", "C", "-", "A", ":", " ">>
                 ELSE <<"U", "P", "C", "-", "E", ":", " ">>
    IN  label \o Concat([i \in 1..Len(barcode.digits) |->
                            to_string(barcode.digits[i])])

\* a closure that gives every symbology the weights of the 13-digit one
check_never_inverts(digits, invert) ==
    LET odd == { i \in 1..Len(digits) : (i - 1) % 2 = 1 }
        even == (1..Len(digits)) \ odd
        oddSeq == [i \in 1..Len(digits) |-> IF i \in odd THEN digits[i] ELSE 0]
        evenSeq == [i \in 1..Len(digits) |-> IF i \in even THEN digits[i] ELSE 0]
        sum == SumSeq(evenSeq) + (SumSeq(oddSeq) * 3)
    IN  sum % 10 = 0

\* a closure that leaves the last digit out of the sum
check_skips_last(digits, invert) ==
    LET odd == { i \in 1..Len(digits) :
                   IF invert THEN (i - 1) % 2 = 0 ELSE (i - 1) % 2 = 1 }
        even == (1..Len(digits)) \ odd
        oddSeq == [i \in 1..Len(digits) |->
                      IF i \in odd /\ i < Len(digits) THEN digits[i] ELSE 0]
        evenSeq == [i \in 1..Len(digits) |->
                      IF i \in even /\ i < Len(digits) THEN digits[i] ELSE 0]
        sum == SumSeq(evenSeq) + (SumSeq(oddSeq) * 3)
    IN  sum % 10 = 0

\* the closure `check` of check_digit; index i of the code is position i + 1 here
check(digits, invert) ==
    LET odd == { i \in 1..Len(digits) :
                   IF invert THEN (i - 1) % 2 = 0 ELSE (i - 1) % 2 = 1 }
        even == (1..Len(digits)) \ odd
        oddSeq == [i \in 1..Len(digits) |-> IF i \in odd THEN digits[i] ELSE 0]
        evenSeq == [i \in 1..Len(digits) |-> IF i \in even THEN digits[i] ELSE 0]
        sum == SumSeq(evenSeq) + (SumSeq(oddSeq) * 3)
    IN  sum % 10 = 0

check_digit(barcode) ==
    IF barcode.kind = "Ean13"
    THEN IF Len(barcode.digits) # 13 THEN FALSE ELSE check(barcode.digits, FALSE)
    ELSE IF barcode.kind = "Ean8"
    THEN IF Len(barcode.digits) # 8 THEN FALSE ELSE check(barcode.digits, TRUE)
    ELSE IF barcode.kind = "UpcA"
    THEN IF Len(barcode.digits) # 12 THEN FALSE ELSE check(barcode.digits, FALSE)
    ELSE IF Len(barcode.digits) # 6 THEN FALSE ELSE check(barcode.digits, FALSE)

(***************************************************************************)
(* Texts the model uses.                                                   *)
(***************************************************************************)
s_alice == <<"a", "l", "i", "c", "e">>

s_bob == <<"b", "o", "b">>

s_adduser == <<"a", "d", "d", "u", "s", "e", "r">>

s_deposit == <<"d", "e", "p", "o", "s", "i", "t">>

s_regcard == <<"r", "e", "g", "c", "a", "r", "d">>

s_abort == <<"a", "b", "o", "r", "t">>

s_cancel == <<"c", "a", "n", "c", "e", "l">>

s_cash == <<"c", "a", "s", "h">>

s_users == <<"u", "s", "e", "r", "s">>

s_help == <<"h", "e", "l", "p">>

s_hilfe == <<"h", "i", "l", "f", "e">>

s_qmark == <<"?">>

s_clear == <<"c", "l", "e", "a", "r">>

s_reload == <<"r", "e", "l", "o", "a", "d">>

s_products == <<"p", "r", "o", "d", "u", "c", "t", "s">>

s_deposits == <<"d", "e", "p", "o", "s", "i", "t", "s">>

s_purchases == <<"p", "u", "r", "c", "h", "a", "s", "e", "s">>

s_delcard == <<"d", "e", "l", "c", "a", "r", "d">>

s_tea == <<"t", "e", "a">>

s_mate == <<"m", "a", "t", "e">>

\* an EAN-13 with a valid checksum
s_ean13 == <<"4", "0", "0", "6", "3", "8", "1", "3", "3", "3", "9", "3", "1">>

\* an EAN-8 with a valid checksum
s_ean8 == <<"9", "6", "3", "8", "5", "0", "7", "4">>

\* 13 digits whose checksum fails
s_bad13 == <<"4", "0", "0", "6", "3", "8", "1", "3", "3", "3", "9", "3", "2">>

\* 6 digits whose checksum passes, not in the catalog
s_upce == <<"0", "1", "2", "3", "4", "4">>

(***************************************************************************)
(* Catalog (products.rs) and cart (main.rs).                               *)
(***************************************************************************)
\* a price whose `as i32` is negative
BigPrice == (2 ^ (MoneyBits - 1)) + 50

\* an amount whose `as i32` is negative
BigAmount == (2 ^ (MoneyBits - 1)) + 100

\* the catalog read_products() returned at startup: barcode -> Product
product_store ==
    LET b13 == try_parse(s_ean13).v
        b8 == try_parse(s_ean8).v
    IN  [b \in {b13, b8} |->
            IF b = b13 THEN [barcode |-> b13, name |-> s_tea, price |-> 150]
            ELSE [barcode |-> b8, name |-> s_mate, price |-> BigPrice]]

\* Cart::new()
Cart_new == [products |-> <<>>]

\* Cart::total(): u32 sum of the prices
total(c) ==
    WrapU32(SumSeq([i \in 1..Len(c.products) |-> c.products[i].price]))

(***************************************************************************)
(* Ledger store (db.rs).  `m` is the in-memory copy the store keeps, `f`   *)
(* the backing file; loadOk / saveOk say whether the file operation of the *)
(* call succeeds.  Every operation returns the copies it leaves behind.    *)
(***************************************************************************)
EmptyDB == [users |-> <<>>, transactions |-> <<>>]

ActorUser(id) == [kind |-> "User", id |-> id]

ActorCash == [kind |-> "Cash", id |-> <<>>]

Purchase(c) == [type |-> "Purchase", products |-> c.products, total |-> total(c),
                method |-> "-"]

Deposit(amount, method) == [type |-> "Deposit", products |-> <<>>, total |-> amount,
                            method |-> method]

Transaction(actor, t) == [actor |-> actor, transaction |-> t]

\* the transactions of user id, in log order
RECURSIVE user_transactions(_, _)
user_transactions(txs, id) ==
    IF txs = <<>> THEN <<>>
    ELSE IF Head(txs).actor = ActorUser(id)
         THEN <<Head(txs)>> \o user_transactions(Tail(txs), id)
         ELSE user_transactions(Tail(txs), id)

\* DB::get_user: get_data(true) reloads the in-memory copy, then looks id up
get_user(m, f, id, loadOk) ==
    IF ~loadOk THEN [found |-> FALSE, mem |-> m]
    ELSE IF id \notin DOMAIN f.users THEN [found |-> FALSE, mem |-> f]
    ELSE [found |-> TRUE, mem |-> f, user |-> f.users[id],
          txs |-> user_transactions(f.transactions, id)]

\* the accounts that hold a card with this uid
card_holders(db, uid) ==
    { id \in DOMAIN db.users : \E c \in db.users[id].cards : c[1] = uid }

\* DB::get_user_by_card: the first account, in the map's iteration order, that
\* holds the uid (the order of a HashMap is arbitrary: `pick` is the one found)
get_user_by_card(m, f, uid, loadOk, pick) ==
    IF ~loadOk THEN [found |-> FALSE, mem |-> m]
    ELSE IF card_holders(f, uid) = {} THEN [found |-> FALSE, mem |-> f]
    ELSE [found |-> TRUE, mem |-> f, user |-> f.users[pick],
          txs |-> user_transactions(f.transactions, pick)]

\* DB::transactions
transactions(m, f, loadOk) ==
    IF ~loadOk THEN [ok |-> FALSE, mem |-> m]
    ELSE [ok |-> TRUE, mem |-> f, val |-> f.transactions]

\* DB::apply_cart_to_user
apply_cart_to_user(m, f, id, c, loadOk, saveOk) ==
    IF ~loadOk THEN [ok |-> FALSE, err |-> "io", mem |-> m, file |-> f]
    ELSE IF id \notin DOMAIN f.users
    THEN [ok |-> FALSE, err |-> "does not exist", mem |-> f, file |-> f]
    ELSE LET u == [f.users[id] EXCEPT
                      !.balance = WrapI32(@ - AsI32(total(c)))]
             data == [users |-> [f.users EXCEPT ![id] = u],
                      transactions |->
                          Append(f.transactions,
                                 Transaction(ActorUser(id), Purchase(c)))]
         IN  IF saveOk
             THEN [ok |-> TRUE, err |-> "", mem |-> data, file |-> data, user |-> u]
             ELSE [ok |-> FALSE, err |-> "io", mem |-> data, file |-> f]

\* a cash settle that records its transaction at the front of the log
apply_cart_to_cash_front(m, f, c, loadOk, saveOk) ==
    IF ~loadOk THEN [ok |-> FALSE, err |-> "io", mem |-> m, file |-> f]
    ELSE LET data == [f EXCEPT
                         !.transactions =
                             <<Transaction(ActorCash, Purchase(c))>> \o @]
         IN  IF saveOk THEN [ok |-> TRUE, err |-> "", mem |-> data, file |-> data]
             ELSE [ok |-> FALSE, err |-> "io", mem |-> data, file |-> f]

\* DB::apply_cart_to_cash
apply_cart_to_cash(m, f, c, loadOk, saveOk) ==
    IF ~loadOk THEN [ok |-> FALSE, err |-> "io", mem |-> m, file |-> f]
    ELSE LET data == [f EXCEPT
                         !.transactions =
                             Append(@, Transaction(ActorCash, Purchase(c)))]
         IN  IF saveOk THEN [ok |-> TRUE, err |-> "", mem |-> data, file |-> data]
             ELSE [ok |-> FALSE, err |-> "io", mem |-> data, file |-> f]

\* DB::deposit_user
deposit_user(m, f, id, amount, method, loadOk, saveOk) ==
    IF ~loadOk THEN [ok |-> FALSE, err |-> "io", mem |-> m, file |-> f]
    ELSE IF id \notin DOMAIN f.users
    THEN [ok |-> FALSE, err |-> "does not exist", mem |-> f, file |-> f]
    ELSE LET u == [f.users[id] EXCEPT !.balance = WrapI32(@ + AsI32(amount))]
             data == [users |-> [f.users EXCEPT ![id] = u],
                      transactions |->
                          Append(f.transactions,
                                 Transaction(ActorUser(id), Deposit(amount, method)))]
         IN  IF saveOk
             THEN [ok |-> TRUE, err |-> "", mem |-> data, file |-> data, user |-> u]
             ELSE [ok |-> FALSE, err |-> "io", mem |-> data, file |-> f]

\* an add_user that inserts without looking for the id first
add_user_overwrites(m, f, id, loadOk, saveOk) ==
    IF ~loadOk THEN [ok |-> FALSE, err |-> "io", mem |-> m, file |-> f]
    ELSE LET data == [f EXCEPT
                         !.users = [x \in (DOMAIN f.users) \cup {id} |->
                                       IF x = id
                                       THEN [id |-> id, balance |-> 0, cards |-> {}]
                                       ELSE f.users[x]]]
         IN  IF saveOk THEN [ok |-> TRUE, err |-> "", mem |-> data, file |-> data]
             ELSE [ok |-> FALSE, err |-> "io", mem |-> data, file |-> f]

\* DB::add_user
add_user(m, f, id, loadOk, saveOk) ==
    IF ~loadOk THEN [ok |-> FALSE, err |-> "io", mem |-> m, file |-> f]
    ELSE IF id \in DOMAIN f.users
    THEN [ok |-> FALSE, err |-> "already exists", mem |-> f, file |-> f]
    ELSE LET data == [f EXCEPT
                         !.users = [x \in (DOMAIN f.users) \cup {id} |->
                                       IF x = id
                                       THEN [id |-> id, balance |-> 0, cards |-> {}]
                                       ELSE f.users[x]]]
         IN  IF saveOk THEN [ok |-> TRUE, err |-> "", mem |-> data, file |-> data]
             ELSE [ok |-> FALSE, err |-> "io", mem |-> data, file |-> f]

\* DB::add_card_to_user: works on the in-memory copy as it is (no reload); the
\* default name uid[0..5] panics when the uid text is shorter than 5
add_card_to_user(m, f, id, card_name, card_uid, saveOk) ==
    IF ~card_name.some /\ Len(card_uid) < 5
    THEN [ok |-> FALSE, err |-> "", panic |-> TRUE, mem |-> m, file |-> f]
    ELSE LET name == IF card_name.some THEN card_name.v ELSE SubSeq(card_uid, 1, 5)
         IN  IF id \notin DOMAIN m.users
             THEN [ok |-> FALSE, err |-> "does not exist", panic |-> FALSE,
                   mem |-> m, file |-> f]
             ELSE LET data == [m EXCEPT
                                  !.users[id].cards = @ \cup {<<card_uid, name>>}]
                  IN  IF saveOk
                      THEN [ok |-> TRUE, err |-> "", panic |-> FALSE,
                            mem |-> data, file |-> data]
                      ELSE [ok |-> FALSE, err |-> "io", panic |-> FALSE,
                            mem |-> data, file |-> f]

(***************************************************************************)
(* State of the running program (main.rs).                                 *)
(***************************************************************************)
VARIABLES
    mem,            \* the store's in-memory copy of the ledger
    file,           \* the backing file ./data/db: the persisted ledger
    cart,           \* Arc<Mutex<Option<Cart>>>: None or Some(Cart)
    cartLock,       \* who holds the cart mutex: "free" or "main"
    stdinLock,      \* who holds the editor mutex: "free" or "line"
    pcM,            \* where the dispatch loop (main) is
    buffer,         \* the line the dispatch loop is working on
    uids,           \* register_card: the scans received so far
    pcL,            \* where the line producer task is
    permit,         \* the line producer holds a reserved slot of its channel
    lineChan,       \* the line channel (capacity 1)
    lineRxClosed,   \* stdout_rx_handle.close() was called
    lineTxDropped,  \* the line producer returned: its sender is dropped
    pcH,            \* where the hardware producer is
    target,         \* the uid the hardware producer read and has not sent yet
    cardChan,       \* the card channel (capacity 1)
    cardTxDropped,  \* the hardware producer returned: its sender is dropped
    cardRxDropped,  \* main returned: the card receiver is dropped
    stop,           \* stop_reader: the stop flag
    historySaved,   \* save_history("data/history") was done
    nLines,         \* lines read so far (each message carries its number)
    nScans,         \* cards read so far (each message carries its number)
    lineSeen,       \* numbers of the line messages the dispatch loop received
    cardSeen,       \* numbers of the card messages the dispatch loop received
    ioFails,        \* file operations that failed so far
    issued,         \* settlements the dispatcher was given
    failed,         \* settlements that reported an error
    out,            \* what the dispatcher printed last
    calls           \* the calls of the store's mutating operations in progress

vars == <<mem, file, cart, cartLock, stdinLock, pcM, buffer, uids, pcL, permit,
          lineChan, lineRxClosed, lineTxDropped, pcH, target, cardChan,
          cardTxDropped, cardRxDropped, stop, historySaved, nLines, nScans,
          lineSeen, cardSeen, ioFails, issued, failed, out, calls>>

ledgerVars == <<mem, file, ioFails, calls>>

cartVars == <<cart, cartLock>>

lineVars == <<pcL, permit, lineRxClosed, lineTxDropped, nLines>>

hwVars == <<pcH, target, cardTxDropped, nScans>>

ghostVars == <<issued, failed, out>>

\* println!: the message, the error text `{e}` in it, the text argument in it
Said(msg, err, text) == [msg |-> msg, err |-> err, text |-> text]

\* [&str] of texts joined by one space: a typed line
Line(words) == join(words)

\* the lines the operator types
Buffers ==
    { Line(<<s_adduser, s_alice>>), Line(<<s_deposit, s_alice>>),
      Line(<<s_regcard, s_alice>>), s_abort, s_cash, s_users,
      s_ean13, s_alice, <<>> }

\* the amounts (already in money units) and methods entered at deposit's prompts
DepositAmounts == {500, BigAmount}

DepositMethods == {"Cash", "BankTransfer"}

\* the card uids the scanner reads
ScanUids == { <<1, 23, 45>>, <<12, 3, 45>> }

\* the outcomes of n file operations, within the failure budget
IOOutcomes(n) ==
    { o \in [1..n -> BOOLEAN] :
        Cardinality({ i \in 1..n : ~o[i] }) <= MaxIOFail - ioFails }

Fails(o) == Cardinality({ i \in 1..Len(o) : ~o[i] })

\* the callers of the store, when it is called from more than one thread
Callers == {1, 2}

\* no call of a mutating operation has begun; `base` is the file as it was
\* when the first call began
NoCalls ==
    [of |-> [c \in Callers |-> [pc |-> "idle", op |-> <<>>, ok |-> FALSE]],
     base |-> EmptyDB]

Init ==
    /\ mem = EmptyDB
    /\ file = EmptyDB
    /\ cart = None
    /\ cartLock = "free"
    /\ stdinLock = "free"
    /\ pcM = "select"
    /\ buffer = <<>>
    /\ uids = <<>>
    /\ pcL = "reserve"
    /\ permit = FALSE
    /\ lineChan = <<>>
    /\ lineRxClosed = FALSE
    /\ lineTxDropped = FALSE
    /\ pcH = "check"
    /\ target = <<>>
    /\ cardChan = <<>>
    /\ cardTxDropped = FALSE
    /\ cardRxDropped = FALSE
    /\ stop = FALSE
    /\ historySaved = FALSE
    /\ nLines = 0
    /\ nScans = 0
    /\ lineSeen = <<>>
    /\ cardSeen = <<>>
    /\ ioFails = 0
    /\ issued = 0
    /\ failed = 0
    /\ out = Said("", "", <<>>)
    /\ calls = NoCalls

(***************************************************************************)
(* The channels: tokio::sync::mpsc::channel(1).                            *)
(***************************************************************************)
\* a slot is free: nothing queued and no permit outstanding
HasCapacity(chan, reserved) == Len(chan) + (IF reserved THEN 1 ELSE 0) < 1

\* Sender::send / Permit::send: the message joins the queue
chan_send(chan, msg) == Append(chan, msg)

\* a receive that leaves the message it returns in the queue
chan_recv_peek(chan) == [msg |-> Head(chan), rest |-> chan]

\* Receiver::recv of a non-empty channel: the oldest message, and the rest
chan_recv(chan) == [msg |-> Head(chan), rest |-> Tail(chan)]

(***************************************************************************)
(* The line producer task (main.rs 155-191).                               *)
(***************************************************************************)
\* stdout_tx.reserve().await?
LineReserve ==
    /\ pcL = "reserve"
    /\ \/ /\ lineRxClosed
          /\ pcL' = "done"
          /\ lineTxDropped' = TRUE
          /\ UNCHANGED permit
       \/ /\ ~lineRxClosed
          /\ HasCapacity(lineChan, permit)
          /\ permit' = TRUE
          /\ pcL' = "prompt"
          /\ UNCHANGED lineTxDropped
    /\ UNCHANGED <<ledgerVars, cartVars, stdinLock, pcM, buffer, uids, lineChan,
                   lineRxClosed, hwVars, cardChan, cardRxDropped, stop,
                   historySaved, nLines, lineSeen, cardSeen, ghostVars>>

\* a prompt step that empties the cart it looks at
LinePrompt_clears_cart ==
    /\ pcL = "prompt"
    /\ cartLock = "free"
    /\ pcL' = "lock_stdin"
    /\ cart' = None
    /\ UNCHANGED <<ledgerVars, cartLock, stdinLock, pcM, buffer, uids, permit,
                   lineChan, lineRxClosed, lineTxDropped, hwVars, cardChan,
                   cardRxDropped, stop, historySaved, nLines, lineSeen, cardSeen,
                   ghostVars>>

\* cart_c.lock().await.is_none(): the task locks the cart to choose its prompt
LinePrompt ==
    /\ pcL = "prompt"
    /\ cartLock = "free"
    /\ pcL' = "lock_stdin"
    /\ UNCHANGED <<ledgerVars, cartVars, stdinLock, pcM, buffer, uids, permit,
                   lineChan, lineRxClosed, lineTxDropped, hwVars, cardChan,
                   cardRxDropped, stop, historySaved, nLines, lineSeen, cardSeen,
                   ghostVars>>

\* stdin_c.lock().await: the editor lock is held for the whole readline
LineLockStdin ==
    /\ pcL = "lock_stdin"
    /\ stdinLock = "free"
    /\ stdinLock' = "line"
    /\ pcL' = "readline"
    /\ UNCHANGED <<ledgerVars, cartVars, pcM, buffer, uids, permit, lineChan,
                   lineRxClosed, lineTxDropped, hwVars, cardChan, cardRxDropped,
                   stop, historySaved, nLines, lineSeen, cardSeen, ghostVars>>

\* readline returns Ok(t): permit.send(StdoutMsg::Text(t))
LineReadText ==
    /\ pcL = "readline"
    /\ nLines < MaxLines
    /\ \E t \in Buffers :
          lineChan' = chan_send(lineChan,
                                [kind |-> "Text", text |-> t, seq |-> nLines + 1])
    /\ nLines' = nLines + 1
    /\ permit' = FALSE
    /\ stdinLock' = "free"
    /\ pcL' = "reserve"
    /\ UNCHANGED <<ledgerVars, cartVars, pcM, buffer, uids, lineRxClosed,
                   lineTxDropped, hwVars, cardChan, cardRxDropped, stop,
                   historySaved, lineSeen, cardSeen, ghostVars>>

\* readline returns Interrupted or Eof: the Signal value is built and thrown
\* away, the stop flag is set and the task returns (permit and sender dropped)
LineReadEof ==
    /\ pcL = "readline"
    /\ stop' = TRUE
    /\ permit' = FALSE
    /\ lineTxDropped' = TRUE
    /\ stdinLock' = "free"
    /\ pcL' = "done"
    /\ UNCHANGED <<ledgerVars, cartVars, pcM, buffer, uids, lineChan, lineRxClosed,
                   hwVars, cardChan, cardRxDropped, historySaved, nLines, lineSeen,
                   cardSeen, ghostVars>>

\* readline returns another error: permit.send(StdoutMsg::Signal(Signal::Kill))
LineReadError ==
    /\ pcL = "readline"
    /\ nLines < MaxLines
    /\ lineChan' = chan_send(lineChan,
                             [kind |-> "Signal", text |-> <<>>, seq |-> nLines + 1])
    /\ nLines' = nLines + 1
    /\ permit' = FALSE
    /\ stdinLock' = "free"
    /\ pcL' = "reserve"
    /\ UNCHANGED <<ledgerVars, cartVars, pcM, buffer, uids, lineRxClosed,
                   lineTxDropped, hwVars, cardChan, cardRxDropped, stop,
                   historySaved, lineSeen, cardSeen, ghostVars>>

(***************************************************************************)
(* The hardware producer (main.rs 118-147).                                *)
(***************************************************************************)
\* if stop_clone.load(SeqCst) { break }
HwCheckStop ==
    /\ pcH = "check"
    /\ IF stop
       THEN pcH' = "done" /\ cardTxDropped' = TRUE
       ELSE pcH' = "poll" /\ UNCHANGED cardTxDropped
    /\ UNCHANGED <<ledgerVars, cartVars, stdinLock, pcM, buffer, uids, lineVars,
                   lineChan, target, nScans, cardChan, cardRxDropped, stop,
                   historySaved, lineSeen, cardSeen, ghostVars>>

\* initiator_select_passive_target returns an Iso14443a target
HwPollTarget ==
    /\ pcH = "poll"
    /\ nScans < MaxScans
    /\ \E u \in ScanUids : target' = u
    /\ nScans' = nScans + 1
    /\ pcH' = "send"
    /\ UNCHANGED <<ledgerVars, cartVars, stdinLock, pcM, buffer, uids, lineVars,
                   lineChan, cardTxDropped, cardChan, cardRxDropped, stop,
                   historySaved, lineSeen, cardSeen, ghostVars>>

\* the poll times out or fails: Err(_) => continue
HwPollNone ==
    /\ pcH = "poll"
    /\ pcH' = "check"
    /\ UNCHANGED <<ledgerVars, cartVars, stdinLock, pcM, buffer, uids, lineVars,
                   lineChan, target, cardTxDropped, nScans, cardChan,
                   cardRxDropped, stop, historySaved, lineSeen, cardSeen,
                   ghostVars>>

\* card_tx.blocking_send(uid)?: waits for the slot; an error once the receiver
\* is gone
HwSend ==
    /\ pcH = "send"
    /\ \/ /\ cardRxDropped
          /\ pcH' = "done"
          /\ cardTxDropped' = TRUE
          /\ UNCHANGED cardChan
       \/ /\ ~cardRxDropped
          /\ HasCapacity(cardChan, FALSE)
          /\ cardChan' = chan_send(cardChan, [uid |-> target, seq |-> nScans])
          /\ pcH' = "check"
          /\ UNCHANGED cardTxDropped
    /\ target' = <<>>
    /\ UNCHANGED <<ledgerVars, cartVars, stdinLock, pcM, buffer, uids, lineVars,
                   lineChan, nScans, cardRxDropped, stop, historySaved, lineSeen,
                   cardSeen, ghostVars>>

(***************************************************************************)
(* The dispatch loop (main.rs 193-361) and its handlers.  A handler is an  *)
(* operator from the dispatcher's state to the state it leaves; `io` lists *)
(* the outcomes of the file operations it makes, in order.                 *)
(***************************************************************************)
\* a list of forbidden ids that lacks "cash"
FORBIDDEN_USERS_without_cash ==
    { s_help, s_qmark, s_hilfe, s_reload, s_products, s_adduser, s_deposit,
      s_users, s_deposits, s_purchases, s_abort, s_cancel, s_clear,
      s_regcard, s_delcard }

\* FORBIDDEN_USERS (main.rs 36-53)
FORBIDDEN_USERS ==
    { s_help, s_qmark, s_hilfe, s_reload, s_products, s_adduser, s_deposit,
      s_users, s_deposits, s_purchases, s_abort, s_cancel, s_cash, s_clear,
      s_regcard, s_delcard }

MainState ==
    [mem |-> mem, file |-> file, cart |-> cart, cartLock |-> cartLock,
     pcM |-> pcM, issued |-> issued, failed |-> failed, out |-> out]

\* complete_cart (main.rs 372-385).  cart.lock().await never returns while the
\* lock is held, by the caller or by complete_cart's own guard cart_unlocked:
\* tokio's Mutex is not reentrant.
complete_cart(st, user, io) ==
    IF st.cartLock # "free"
    THEN [st EXCEPT !.pcM = "blocked"]
    ELSE LET r == apply_cart_to_user(st.mem, st.file, user.id, st.cart.v,
                                     io[1], io[2])
         IN  IF r.ok
             THEN [st EXCEPT !.mem = r.mem, !.file = r.file,
                             !.cartLock = "main", !.pcM = "blocked",
                             !.out = Said("Charged to user", "", user.id)]
             ELSE [st EXCEPT !.mem = r.mem, !.file = r.file,
                             !.failed = @ + 1, !.pcM = "select",
                             !.out = Said("Error, unable to charge user", r.err,
                                          <<>>)]

\* a card branch that opens an empty cart for a bound card scanned while idle
card_branch_opens_cart(st, card_id, pick, io) ==
    LET card_id_str == uid_string(card_id)
        g == get_user_by_card(st.mem, st.file, card_id_str, io[1], pick)
        st1 == [st EXCEPT !.mem = g.mem, !.pcM = "select"]
    IN  IF ~g.found THEN st1
        ELSE IF ~st1.cart.some
        THEN [st1 EXCEPT !.cart = Some(Cart_new),
                         !.out = Said("User", "", g.user.id)]
        ELSE complete_cart([st1 EXCEPT !.issued = @ + 1], g.user,
                           <<io[2], io[3]>>)

\* the card_rx_handle branch of the select (main.rs 228-249)
card_branch(st, card_id, pick, io) ==
    LET card_id_str == uid_string(card_id)
        g == get_user_by_card(st.mem, st.file, card_id_str, io[1], pick)
        st1 == [st EXCEPT !.mem = g.mem, !.pcM = "select"]
    IN  IF ~g.found THEN st1
        ELSE IF ~st1.cart.some
        THEN [st1 EXCEPT !.out = Said("User", "", g.user.id)]
        ELSE complete_cart([st1 EXCEPT !.issued = @ + 1], g.user,
                           <<io[2], io[3]>>)

\* a dispatch that looks the token up as an account id before it tries it as a
\* barcode
match_command_account_first(command, args) ==
    IF command \in {s_hilfe, s_help, s_qmark} THEN "help"
    ELSE IF command = s_clear THEN "clear"
    ELSE IF command = s_reload THEN "reload"
    ELSE IF command = s_products THEN "products"
    ELSE IF command = s_adduser THEN "adduser"
    ELSE IF command = s_regcard THEN "regcard"
    ELSE IF command = s_deposit THEN "deposit"
    ELSE IF command = s_users THEN "users"
    ELSE IF command = s_deposits THEN "deposits"
    ELSE IF command = s_purchases THEN "purchases"
    ELSE IF command \in {s_abort, s_cancel} THEN "abort"
    ELSE IF command = s_cash THEN "cash"
    ELSE IF command \in DOMAIN file.users THEN "account"
    ELSE IF try_parse(command).some /\ args = <<>> THEN "barcode"
    ELSE "account"

\* the arm of `match command` that a line takes (main.rs 260-359)
match_command(command, args) ==
    IF command \in {s_hilfe, s_help, s_qmark} THEN "help"
    ELSE IF command = s_clear THEN "clear"
    ELSE IF command = s_reload THEN "reload"
    ELSE IF command = s_products THEN "products"
    ELSE IF command = s_adduser THEN "adduser"
    ELSE IF command = s_regcard THEN "regcard"
    ELSE IF command = s_deposit THEN "deposit"
    ELSE IF command = s_users THEN "users"
    ELSE IF command = s_deposits THEN "deposits"
    ELSE IF command = s_purchases THEN "purchases"
    ELSE IF command \in {s_abort, s_cancel} THEN "abort"
    ELSE IF command = s_cash THEN "cash"
    ELSE IF try_parse(command).some /\ args = <<>> THEN "barcode"
    ELSE "account"

\* adduser (main.rs 497-516)
adduser(st, args, io) ==
    IF Len(args) < 1 THEN [st EXCEPT !.out = Said("Usage: adduser <id>", "", <<>>)]
    ELSE IF args[1] \in FORBIDDEN_USERS
    THEN [st EXCEPT !.out = Said("Error, user ID is forbidden", "", <<>>)]
    ELSE LET r == add_user(st.mem, st.file, args[1], io[1], io[2])
         IN  [st EXCEPT !.mem = r.mem, !.file = r.file,
                         !.out = IF r.ok THEN Said("User added", "", args[1])
                                 ELSE Said("Error, unable to add user", r.err,
                                           <<>>)]

\* deposit (main.rs 518-619), the amount and the method already read from the
\* prompts (amount in money units, after the conversion of the typed text)
deposit(st, args, amount, method, io) ==
    IF Len(args) < 1 THEN [st EXCEPT !.out = Said("Usage: deposit <id>", "", <<>>)]
    ELSE LET r == deposit_user(st.mem, st.file, args[1], amount, method,
                               io[1], io[2])
         IN  [st EXCEPT !.mem = r.mem, !.file = r.file, !.issued = @ + 1,
                         !.failed = IF r.ok THEN @ ELSE @ + 1,
                         !.out = IF r.ok
                                 THEN Said("Deposited applied to user", "", args[1])
                                 ELSE Said("Error, unable to deposit", r.err,
                                           <<>>)]

\* the "abort" | "cancel" arm
abort_arm(st) == [st EXCEPT !.cart = None, !.out = Said("Cart abandoned", "", <<>>)]

\* a cash arm that leaves the cart in progress after a settle
cash_arm_keeps_cart(st, io) ==
    IF st.cart.some
    THEN LET r == apply_cart_to_cash(st.mem, st.file, st.cart.v, io[1], io[2])
         IN  IF r.ok
             THEN [st EXCEPT !.mem = r.mem, !.file = r.file,
                             !.issued = @ + 1,
                             !.out = Said("Please put in the cash box", "", <<>>)]
             ELSE [st EXCEPT !.mem = r.mem, !.file = r.file, !.issued = @ + 1,
                             !.failed = @ + 1,
                             !.out = Said("Error, unable to charge", r.err, <<>>)]
    ELSE [st EXCEPT !.out = Said("Nothing in cart", "", <<>>)]

\* the "cash" arm (main.rs 276-298)
cash_arm(st, io) ==
    IF st.cart.some
    THEN LET r == apply_cart_to_cash(st.mem, st.file, st.cart.v, io[1], io[2])
         IN  IF r.ok
             THEN [st EXCEPT !.mem = r.mem, !.file = r.file, !.cart = None,
                             !.issued = @ + 1,
                             !.out = Said("Please put in the cash box", "", <<>>)]
             ELSE [st EXCEPT !.mem = r.mem, !.file = r.file, !.issued = @ + 1,
                             !.failed = @ + 1,
                             !.out = Said("Error, unable to charge", r.err, <<>>)]
    ELSE [st EXCEPT !.out = Said("Nothing in cart", "", <<>>)]

\* a barcode arm that opens the cart before it looks the product up
barcode_arm_opens_cart(st, command) ==
    LET barcode == try_parse(command).v
        c == IF st.cart.some THEN st.cart.v ELSE Cart_new
    IN  IF ~check_digit(barcode)
        THEN [st EXCEPT !.out = Said("Invalid barcode", "", <<>>)]
        ELSE IF barcode \in DOMAIN product_store
        THEN [st EXCEPT
                 !.cart = Some([c EXCEPT
                                   !.products = Append(@, product_store[barcode])]),
                 !.out = Said("Adding to cart", "", product_store[barcode].name)]
        ELSE [st EXCEPT !.cart = Some(c),
                        !.out = Said("Unknown product", "", <<>>)]

\* the barcode arm (main.rs 299-316)
barcode_arm(st, command) ==
    LET barcode == try_parse(command).v IN
    IF ~check_digit(barcode)
    THEN [st EXCEPT !.out = Said("Invalid barcode", "", <<>>)]
    ELSE IF barcode \in DOMAIN product_store
    THEN LET c == IF st.cart.some THEN st.cart.v ELSE Cart_new
         IN  [st EXCEPT
                 !.cart = Some([c EXCEPT
                                   !.products = Append(@, product_store[barcode])]),
                 !.out = Said("Adding to cart", "", product_store[barcode].name)]
    ELSE [st EXCEPT !.out = Said("Unknown product", "", <<>>)]

\* the account arm (main.rs 317-357): the guard that cart.lock().await yields in
\* the scrutinee lives until the end of the match, so every arm runs with the
\* cart locked
account_arm(st, command, args, io) ==
    LET g == get_user(st.mem, st.file, command, io[1])
        held == [st EXCEPT !.mem = g.mem, !.cartLock = "main"]
    IN  IF g.found /\ args = <<>> /\ ~st.cart.some
        THEN [held EXCEPT !.cartLock = "free", !.out = Said("User", "", command)]
        ELSE IF g.found /\ args = <<>> /\ st.cart.some
        THEN LET done == complete_cart([held EXCEPT !.issued = @ + 1], g.user,
                                       <<io[2], io[3]>>)
             IN  IF done.pcM = "blocked" THEN done
                 ELSE [done EXCEPT !.cartLock = "free"]
        ELSE [held EXCEPT !.cartLock = "free",
                          !.out = Said("Unknown command", "", command)]

\* the dispatcher's variables after a handler
SetMain(st) ==
    /\ mem' = st.mem
    /\ file' = st.file
    /\ cart' = st.cart
    /\ cartLock' = st.cartLock
    /\ pcM' = st.pcM
    /\ issued' = st.issued
    /\ failed' = st.failed
    /\ out' = st.out
    /\ calls' = calls

\* select!: the line channel has a Text
MainRecvText ==
    /\ pcM = "select"
    /\ lineChan # <<>>
    /\ chan_recv(lineChan).msg.kind = "Text"
    /\ lineChan' = chan_recv(lineChan).rest
    /\ lineSeen' = Append(lineSeen, chan_recv(lineChan).msg.seq)
    /\ IF chan_recv(lineChan).msg.text = <<>>
       THEN pcM' = "select" /\ UNCHANGED buffer
       ELSE pcM' = "history" /\ buffer' = chan_recv(lineChan).msg.text
    /\ UNCHANGED <<ledgerVars, cartVars, stdinLock, uids, lineVars, hwVars,
                   cardChan, cardRxDropped, stop, historySaved, cardSeen,
                   ghostVars>>

\* select!: the line channel has a Signal
MainRecvSignal ==
    /\ pcM = "select"
    /\ lineChan # <<>>
    /\ chan_recv(lineChan).msg.kind = "Signal"
    /\ lineChan' = chan_recv(lineChan).rest
    /\ lineSeen' = Append(lineSeen, chan_recv(lineChan).msg.seq)
    /\ pcM' = "closing"
    /\ UNCHANGED <<ledgerVars, cartVars, stdinLock, buffer, uids, lineVars, hwVars,
                   cardChan, cardRxDropped, stop, historySaved, cardSeen,
                   ghostVars>>

\* stdout_rx_handle.close(); break
MainClose ==
    /\ pcM = "closing"
    /\ lineRxClosed' = TRUE
    /\ pcM' = "shutdown"
    /\ UNCHANGED <<ledgerVars, cartVars, stdinLock, buffer, uids, pcL, permit,
                   lineChan, lineTxDropped, nLines, hwVars, cardChan,
                   cardRxDropped, stop, historySaved, lineSeen, cardSeen,
                   ghostVars>>

\* select!: recv() of a channel that is empty and whose sender is gone is None:
\* `None => continue` for a line, `continue` for a card
MainRecvNone ==
    /\ pcM = "select"
    /\ \/ lineChan = <<>> /\ lineTxDropped
       \/ cardChan = <<>> /\ cardTxDropped
    /\ UNCHANGED vars

\* select!: the card channel has a uid
MainRecvCard ==
    /\ pcM = "select"
    /\ cardChan # <<>>
    /\ cardChan' = chan_recv(cardChan).rest
    /\ cardSeen' = Append(cardSeen, chan_recv(cardChan).msg.seq)
    /\ \E io \in IOOutcomes(3) :
       \E pick \in IF card_holders(file, uid_string(chan_recv(cardChan).msg.uid)) = {}
                   THEN {<<>>}
                   ELSE card_holders(file, uid_string(chan_recv(cardChan).msg.uid)) :
          /\ io[1] \/ (io[2] /\ io[3])
          /\ io[2] \/ io[3]
          /\ (pick # <<>> /\ cart.some) \/ (io[2] /\ io[3])
          /\ SetMain(card_branch(MainState, chan_recv(cardChan).msg.uid, pick, io))
          /\ ioFails' = ioFails + Fails(io)
    /\ UNCHANGED <<stdinLock, buffer, uids, lineVars, lineChan, hwVars,
                   cardRxDropped, stop, historySaved, lineSeen>>

\* the line is taken up: stdin.lock().await, add_history_entry, split_whitespace
Dispatching == pcM = "history" /\ stdinLock = "free"

command == split_whitespace(buffer)[1]

args == Tail(split_whitespace(buffer))

arm == match_command(command, args)

\* what every command leaves alone
DispatchFrame ==
    UNCHANGED <<stdinLock, buffer, lineVars, lineChan, hwVars, cardChan,
                cardRxDropped, stop, historySaved, lineSeen, cardSeen>>

\* help, clear, reload, products: no store access; users, deposits, purchases:
\* db.users() / db.transactions() reload the in-memory copy
CmdShow ==
    /\ Dispatching
    /\ arm \in {"help", "clear", "reload", "products", "users", "deposits",
                "purchases"}
    /\ \E io \in IOOutcomes(1) :
          /\ arm \in {"help", "clear", "reload", "products"} => io[1]
          /\ mem' = IF arm \in {"users", "deposits", "purchases"}
                    THEN transactions(mem, file, io[1]).mem
                    ELSE mem
          /\ ioFails' = ioFails + Fails(io)
          /\ out' = Said(arm, IF io[1] THEN "" ELSE "io", <<>>)
    /\ pcM' = "select"
    /\ UNCHANGED <<file, cart, cartLock, uids, issued, failed, calls>>
    /\ DispatchFrame

CmdAdduser ==
    /\ Dispatching
    /\ arm = "adduser"
    /\ \E io \in IOOutcomes(2) :
          /\ io[1] \/ io[2]
          \* a file operation that is not reached does not fail
          /\ (args = <<>> \/ args[1] \in FORBIDDEN_USERS) => io[1]
          /\ (args = <<>> \/ args[1] \in FORBIDDEN_USERS
                \/ args[1] \in DOMAIN file.users) => io[2]
          /\ SetMain([adduser(MainState, args, io) EXCEPT !.pcM = "select"])
          /\ ioFails' = ioFails + Fails(io)
    /\ UNCHANGED uids
    /\ DispatchFrame

\* deposit: the operator aborts at a prompt, or enters an amount and a method
CmdDeposit ==
    /\ Dispatching
    /\ arm = "deposit"
    /\ \/ /\ args # <<>>
          /\ SetMain([MainState EXCEPT
                         !.pcM = "select",
                         !.out = Said("Amount to deposit ('abort' to cancel)", "",
                                      <<>>)])
          /\ UNCHANGED ioFails
       \/ \E amount \in DepositAmounts, method \in DepositMethods,
             io \in IOOutcomes(2) :
             /\ io[1] \/ io[2]
             /\ args = <<>> => io[1]
             /\ (args = <<>> \/ args[1] \notin DOMAIN file.users) => io[2]
             /\ SetMain([deposit(MainState, args, amount, method, io)
                            EXCEPT !.pcM = "select"])
             /\ ioFails' = ioFails + Fails(io)
    /\ UNCHANGED uids
    /\ DispatchFrame

CmdAbort ==
    /\ Dispatching
    /\ arm = "abort"
    /\ cartLock = "free"
    /\ SetMain([abort_arm(MainState) EXCEPT !.pcM = "select"])
    /\ UNCHANGED <<ioFails, uids>>
    /\ DispatchFrame

CmdCash ==
    /\ Dispatching
    /\ arm = "cash"
    /\ cartLock = "free"
    /\ \E io \in IOOutcomes(2) :
          /\ io[1] \/ io[2]
          /\ cart.some \/ (io[1] /\ io[2])
          /\ SetMain([cash_arm(MainState, io) EXCEPT !.pcM = "select"])
          /\ ioFails' = ioFails + Fails(io)
    /\ UNCHANGED uids
    /\ DispatchFrame

CmdBarcode ==
    /\ Dispatching
    /\ arm = "barcode"
    /\ cartLock = "free"
    /\ SetMain([barcode_arm(MainState, command) EXCEPT !.pcM = "select"])
    /\ UNCHANGED <<ioFails, uids>>
    /\ DispatchFrame

CmdAccount ==
    /\ Dispatching
    /\ arm = "account"
    /\ cartLock = "free"
    /\ \E io \in IOOutcomes(3) :
          /\ io[2] /\ io[3]
          /\ SetMain(account_arm([MainState EXCEPT !.pcM = "select"], command,
                                 args, io))
          /\ ioFails' = ioFails + Fails(io)
    /\ UNCHANGED uids
    /\ DispatchFrame

\* register_card (main.rs 710-746): usage without arguments, else wait for scans
CmdRegcard ==
    /\ Dispatching
    /\ arm = "regcard"
    /\ IF args = <<>>
       THEN pcM' = "select" /\ out' = Said("Usage: regcard <id> [card name]", "", <<>>)
       ELSE pcM' = "regcard"
            /\ out' = Said("Please touch the card to the reader", "", <<>>)
    /\ uids' = <<>>
    /\ UNCHANGED <<ledgerVars, cartVars, issued, failed>>
    /\ DispatchFrame

\* register_card after its two scans: the uids must match, then the card is
\* written to the user
register_card(st, id, name, scans, io) ==
    IF scans[1] # scans[2]
    THEN [st EXCEPT !.pcM = "select",
                    !.out = Said("Your card does not have a static UID", "", <<>>)]
    ELSE LET r == add_card_to_user(st.mem, st.file, id, name,
                                   uid_string(scans[1]), io[1])
         IN  [st EXCEPT !.mem = r.mem, !.file = r.file,
                         !.pcM = IF r.panic THEN "panicked" ELSE "select",
                         !.out = IF r.panic THEN @
                                 ELSE IF r.ok
                                 THEN Said("A card has been associated with your user",
                                           "", uid_string(scans[1]))
                                 ELSE Said("Error, failed to write the card information to your user",
                                           r.err, <<>>)]

\* reader.recv().await.unwrap(), twice
MainRegcardRecv ==
    /\ pcM = "regcard"
    /\ \/ /\ cardChan # <<>>
          /\ cardChan' = chan_recv(cardChan).rest
          /\ cardSeen' = Append(cardSeen, chan_recv(cardChan).msg.seq)
          /\ LET scans == Append(uids, chan_recv(cardChan).msg.uid)
                 name == IF Len(args) > 1 THEN Some(join(Tail(args))) ELSE None
             IN  IF Len(scans) < 2
                 THEN /\ uids' = scans
                      /\ UNCHANGED <<ledgerVars, cartVars, pcM, ghostVars>>
                 ELSE /\ uids' = <<>>
                      /\ \E io \in IOOutcomes(1) :
                            /\ (\/ scans[1] # scans[2]
                                \/ args[1] \notin DOMAIN mem.users
                                \/ ~name.some /\ Len(uid_string(scans[1])) < 5)
                                  => io[1]
                            /\ SetMain(register_card(MainState, args[1], name,
                                                     scans, io))
                            /\ ioFails' = ioFails + Fails(io)
       \/ /\ cardChan = <<>>
          /\ cardTxDropped
          /\ pcM' = "panicked"
          /\ UNCHANGED <<ledgerVars, cartVars, uids, cardChan, cardSeen, ghostVars>>
    /\ UNCHANGED <<stdinLock, buffer, lineVars, lineChan, hwVars, cardRxDropped,
                   stop, historySaved, lineSeen>>

\* after the loop: stdin.lock().await.save_history("data/history"), then main
\* returns and its receivers are dropped
MainShutdown ==
    /\ pcM = "shutdown"
    /\ stdinLock = "free"
    /\ historySaved' = TRUE
    /\ cardRxDropped' = TRUE
    /\ pcM' = "done"
    /\ UNCHANGED <<ledgerVars, cartVars, stdinLock, buffer, uids, lineVars,
                   lineChan, hwVars, cardChan, stop, lineSeen, cardSeen,
                   ghostVars>>

LineProducer ==
    \/ LineReserve
    \/ LinePrompt
    \/ LineLockStdin
    \/ LineReadText
    \/ LineReadEof
    \/ LineReadError

HardwareProducer ==
    \/ HwCheckStop
    \/ HwPollTarget
    \/ HwPollNone
    \/ HwSend

Dispatcher ==
    \/ MainRecvText
    \/ MainRecvSignal
    \/ MainClose
    \/ MainRecvNone
    \/ MainRecvCard
    \/ CmdShow
    \/ CmdAdduser
    \/ CmdDeposit
    \/ CmdAbort
    \/ CmdCash
    \/ CmdBarcode
    \/ CmdAccount
    \/ CmdRegcard
    \/ MainRegcardRecv
    \/ MainShutdown

Next == LineProducer \/ HardwareProducer \/ Dispatcher

Spec == Init /\ [][Next]_vars

(***************************************************************************)
(* The ledger store on its own: its operations called directly, in any     *)
(* order and with any arguments, as db.rs offers them to its callers.      *)
(***************************************************************************)
AccountIds == {s_alice, s_bob}

\* the carts of 1..MaxCart catalogued products
Carts ==
    { [products |-> ps] :
        ps \in UNION { [1..n -> { product_store[b] : b \in DOMAIN product_store }] :
                         n \in 1..MaxCart } }

\* the uid texts and the card names given to add_card_to_user
CardUids == { uid_string(u) : u \in ScanUids } \cup { <<"7", "7">> }

CardNames == { None, Some(s_tea) }

\* what a ledger call leaves alone: the dispatcher and the producers
LedgerFrame ==
    UNCHANGED <<cartVars, stdinLock, pcM, buffer, uids, lineVars, lineChan,
                hwVars, cardChan, cardRxDropped, stop, historySaved, lineSeen,
                cardSeen, ghostVars, calls>>

LogRoom == Len(file.transactions) < MaxLog

\* the card bindings of a ledger copy, as <<account id, <<uid, name>>>>
bindings(db) ==
    UNION { { <<id, c>> : c \in db.users[id].cards } : id \in DOMAIN db.users }

CardRoom == Cardinality(bindings(mem)) < MaxCards

DbGetUser ==
    /\ \E id \in AccountIds, io \in IOOutcomes(1) :
          /\ mem' = get_user(mem, file, id, io[1]).mem
          /\ ioFails' = ioFails + Fails(io)
    /\ UNCHANGED file
    /\ LedgerFrame

DbGetUserByCard ==
    /\ \E uid \in CardUids, io \in IOOutcomes(1) :
       \E pick \in IF card_holders(file, uid) = {} THEN {<<>>}
                   ELSE card_holders(file, uid) :
          /\ mem' = get_user_by_card(mem, file, uid, io[1], pick).mem
          /\ ioFails' = ioFails + Fails(io)
    /\ UNCHANGED file
    /\ LedgerFrame

DbApplyCartToUser ==
    /\ LogRoom
    /\ \E id \in AccountIds, c \in Carts, io \in IOOutcomes(2) :
          /\ io[1] \/ io[2]
          /\ mem' = apply_cart_to_user(mem, file, id, c, io[1], io[2]).mem
          /\ file' = apply_cart_to_user(mem, file, id, c, io[1], io[2]).file
          /\ ioFails' = ioFails + Fails(io)
    /\ LedgerFrame

DbApplyCartToCash ==
    /\ LogRoom
    /\ \E c \in Carts, io \in IOOutcomes(2) :
          /\ io[1] \/ io[2]
          /\ mem' = apply_cart_to_cash(mem, file, c, io[1], io[2]).mem
          /\ file' = apply_cart_to_cash(mem, file, c, io[1], io[2]).file
          /\ ioFails' = ioFails + Fails(io)
    /\ LedgerFrame

DbDepositUser ==
    /\ LogRoom
    /\ \E id \in AccountIds, amount \in DepositAmounts, method \in DepositMethods,
          io \in IOOutcomes(2) :
          /\ io[1] \/ io[2]
          /\ mem' = deposit_user(mem, file, id, amount, method, io[1], io[2]).mem
          /\ file' = deposit_user(mem, file, id, amount, method, io[1], io[2]).file
          /\ ioFails' = ioFails + Fails(io)
    /\ LedgerFrame

DbAddUser ==
    /\ \E id \in AccountIds, io \in IOOutcomes(2) :
          /\ io[1] \/ io[2]
          /\ mem' = add_user(mem, file, id, io[1], io[2]).mem
          /\ file' = add_user(mem, file, id, io[1], io[2]).file
          /\ ioFails' = ioFails + Fails(io)
    /\ LedgerFrame

\* a call that panics (uid[0..5] out of range) ends the run: it is not taken
DbAddCardToUser ==
    /\ CardRoom
    /\ \E id \in AccountIds, name \in CardNames, uid \in CardUids,
          io \in IOOutcomes(1) :
          /\ ~add_card_to_user(mem, file, id, name, uid, io[1]).panic
          /\ mem' = add_card_to_user(mem, file, id, name, uid, io[1]).mem
          /\ file' = add_card_to_user(mem, file, id, name, uid, io[1]).file
          /\ ioFails' = ioFails + Fails(io)
    /\ LedgerFrame

LedgerNext ==
    \/ DbGetUser
    \/ DbGetUserByCard
    \/ DbApplyCartToUser
    \/ DbApplyCartToCash
    \/ DbDepositUser
    \/ DbAddUser
    \/ DbAddCardToUser

LedgerSpec == Init /\ [][LedgerNext]_vars

(***************************************************************************)
(* The ledger store called from two threads (DB is Sync: its methods take  *)
(* &self).  A mutating operation is three calls of the store underneath:   *)
(* self.0.load(), the mutation under the guard of borrow_data_mut(), which *)
(* is dropped at the end of its block, and self.0.save().  Each of the     *)
(* three is one step; db.rs holds no lock from one to the next.            *)
(***************************************************************************)
Op(name, id, amount, method, c) ==
    [name |-> name, id |-> id, amount |-> amount, method |-> method, cart |-> c]

\* the operations the two callers choose from
StoreOps ==
    { Op("add_user", id, 0, "-", <<>>) : id \in AccountIds }
    \cup { Op("deposit_user", id, 500, "Cash", <<>>) : id \in AccountIds }
    \cup { Op("apply_cart_to_user", s_alice, 0, "-", c) :
             c \in { k \in Carts : Len(k.products) = 1 } }
    \cup { Op("apply_cart_to_cash", <<>>, 0, "-", c) :
             c \in { k \in Carts : Len(k.products) = 1 } }

\* the operation as one uninterrupted call
Call(op, m, f, loadOk, saveOk) ==
    IF op.name = "add_user" THEN add_user(m, f, op.id, loadOk, saveOk)
    ELSE IF op.name = "deposit_user"
    THEN deposit_user(m, f, op.id, op.amount, op.method, loadOk, saveOk)
    ELSE IF op.name = "apply_cart_to_user"
    THEN apply_cart_to_user(m, f, op.id, op.cart, loadOk, saveOk)
    ELSE apply_cart_to_cash(m, f, op.cart, loadOk, saveOk)

\* the middle of the operation: what it does to the in-memory copy it borrows
Mutation(op, m) == Call(op, m, m, TRUE, TRUE)

AllIdle == \A c \in Callers : calls.of[c].pc = "idle"

StoreFrame ==
    UNCHANGED <<cartVars, stdinLock, pcM, buffer, uids, lineVars, lineChan,
                hwVars, cardChan, cardRxDropped, stop, historySaved, lineSeen,
                cardSeen, ghostVars>>

\* accounts are added before the two callers start
StoreSetup ==
    /\ AllIdle
    /\ DbAddUser

\* a caller enters a mutating operation
StoreBegin ==
    /\ \E c \in Callers, op \in StoreOps :
          /\ calls.of[c].pc = "idle"
          /\ calls' = [calls EXCEPT
                          !.of[c] = [pc |-> "load", op |-> op, ok |-> FALSE],
                          !.base = IF AllIdle THEN file ELSE @]
    /\ UNCHANGED <<mem, file, ioFails>>
    /\ StoreFrame

\* self.0.load(): the in-memory copy is replaced by the file; Err ends the call
StoreLoad ==
    /\ \E c \in Callers, io \in IOOutcomes(1) :
          /\ calls.of[c].pc = "load"
          /\ mem' = IF io[1] THEN file ELSE mem
          /\ calls' = [calls EXCEPT
                          !.of[c].pc = IF io[1] THEN "mutate" ELSE "done"]
          /\ ioFails' = ioFails + Fails(io)
    /\ UNCHANGED file
    /\ StoreFrame

\* the block under borrow_data_mut(): the mutation, or the early return of Err
StoreMutate ==
    /\ \E c \in Callers :
          /\ calls.of[c].pc = "mutate"
          /\ LET r == Mutation(calls.of[c].op, mem)
             IN  /\ mem' = IF r.ok THEN r.mem ELSE mem
                 /\ calls' = [calls EXCEPT
                                 !.of[c].pc = IF r.ok THEN "save" ELSE "done"]
    /\ UNCHANGED <<file, ioFails>>
    /\ StoreFrame

\* self.0.save(): the in-memory copy, whole, is written to the file
StoreSave ==
    /\ \E c \in Callers, io \in IOOutcomes(1) :
          /\ calls.of[c].pc = "save"
          /\ file' = IF io[1] THEN mem ELSE file
          /\ calls' = [calls EXCEPT !.of[c].pc = "done", !.of[c].ok = io[1]]
          /\ ioFails' = ioFails + Fails(io)
    /\ UNCHANGED mem
    /\ StoreFrame

StoreNext ==
    \/ StoreSetup
    \/ StoreBegin
    \/ StoreLoad
    \/ StoreMutate
    \/ StoreSave

StoreSpec == Init /\ [][StoreNext]_vars

(***************************************************************************)
(* The barcode parser on its own: Barcode::try_parse applied to a text, and *)
(* the result printed with `{}`.                                           *)
(***************************************************************************)
\* a text of n characters: digits in an arithmetic pattern, and the character
\* c in place of the digit at position k (k = 0: digits only)
CodeText(n, a, b, k, c) ==
    [i \in 1..n |-> IF i = k THEN c ELSE DigitChars[((a + i * b) % 10) + 1]]

CodecInputs ==
    { CodeText(n, a, b, k, c) :
        n \in 0..MaxCodeLen, a \in {0, 4}, b \in {0, 3}, k \in 0..MaxCodeLen,
        c \in {"x", "-"} }
      \cup { s_ean13, s_ean8, s_bad13, s_upce, s_alice }

\* the program at rest with one of the texts in hand
ParserInit(texts) ==
    /\ mem = EmptyDB
    /\ file = EmptyDB
    /\ cart = None
    /\ cartLock = "free"
    /\ stdinLock = "free"
    /\ pcM = "history"
    /\ buffer \in texts
    /\ uids = <<>>
    /\ pcL = "reserve"
    /\ permit = FALSE
    /\ lineChan = <<>>
    /\ lineRxClosed = FALSE
    /\ lineTxDropped = FALSE
    /\ pcH = "check"
    /\ target = <<>>
    /\ cardChan = <<>>
    /\ cardTxDropped = FALSE
    /\ cardRxDropped = FALSE
    /\ stop = FALSE
    /\ historySaved = FALSE
    /\ nLines = 0
    /\ nScans = 0
    /\ lineSeen = <<>>
    /\ cardSeen = <<>>
    /\ ioFails = 0
    /\ issued = 0
    /\ failed = 0
    /\ out = Said("", "", <<>>)
    /\ calls = NoCalls

CodecInit == ParserInit(CodecInputs)

\* Barcode::try_parse(buffer), and format!("{}", barcode) of a match
CodecParse ==
    /\ pcM = "history"
    /\ pcM' = "select"
    /\ out' = IF try_parse(buffer).some
              THEN Said("Some", "", Display(try_parse(buffer).v))
              ELSE Said("None", "", <<>>)
    /\ UNCHANGED <<ledgerVars, cartVars, stdinLock, buffer, uids, lineVars,
                   lineChan, hwVars, cardChan, cardRxDropped, stop,
                   historySaved, lineSeen, cardSeen, issued, failed>>

CodecNext == CodecParse

CodecSpec == CodecInit /\ [][CodecNext]_vars

(***************************************************************************)
(* The checksum on its own: Barcode::check_digit applied to a value of any *)
(* variant of the enum, holding a digit list of any length.                *)
(***************************************************************************)
Kinds == {"Ean13", "Ean8", "UpcA", "UpcE"}

\* digit texts of length 5..14 ending in each of the ten digits
CheckInputs ==
    { CodeText(n, a, b, n, DigitChars[f + 1]) :
        n \in 5..(MaxCodeLen - 1), a \in {0, 4}, b \in {0, 3}, f \in 0..9 }
      \cup { s_ean13, s_ean8, s_bad13, s_upce }

CheckInit == ParserInit(CheckInputs)

\* what the call returned: the value it was applied to and the result
Checked(barcode, valid) ==
    [msg |-> "check_digit", err |-> "", text |-> <<>>,
     barcode |-> barcode, valid |-> valid]

\* barcode.check_digit() for a value of some variant built from the digits
CheckDigit ==
    /\ pcM = "history"
    /\ pcM' = "select"
    /\ \E kind \in Kinds :
          LET barcode == [kind |-> kind, digits |-> int_digits(buffer).v]
          IN  out' = Checked(barcode, check_digit(barcode))
    /\ UNCHANGED <<ledgerVars, cartVars, stdinLock, buffer, uids, lineVars,
                   lineChan, hwVars, cardChan, cardRxDropped, stop,
                   historySaved, lineSeen, cardSeen, issued, failed>>

CheckNext == CheckDigit

CheckSpec == CheckInit /\ [][CheckNext]_vars

(***************************************************************************)
(* The dispatcher on its own: lines and scans handed to it one at a time,  *)
(* as the select loop takes them from its two channels.                    *)
(***************************************************************************)
\* the lines typed
DirectBuffers ==
    { Line(<<s_adduser, s_alice>>), Line(<<s_adduser, s_ean13>>),
      Line(<<s_adduser, s_cash>>), Line(<<s_adduser, s_delcard>>),
      Line(<<s_deposit, s_alice>>), Line(<<s_deposit, s_bob>>),
      Line(<<s_regcard, s_alice>>), Line(<<s_regcard, s_alice, s_tea>>),
      Line(<<s_regcard, s_bob>>), Line(<<s_delcard, s_alice>>),
      Line(<<s_delcard, s_alice, s_tea>>), s_delcard,
      s_abort, s_cash, s_users, s_ean13, s_ean8, s_bad13, s_upce,
      s_alice, s_bob }

\* the card uids scanned: the two of ScanUids and a 4-byte uid of small bytes
DirectUids == ScanUids \cup { <<1, 2, 3, 4>> }

\* select!: Some(StdoutMsg::Text(t)) with a non-empty t
DirectLine ==
    /\ pcM = "select"
    /\ nLines < MaxCmds
    /\ \E t \in DirectBuffers : buffer' = t
    /\ nLines' = nLines + 1
    /\ pcM' = "history"
    /\ UNCHANGED <<ledgerVars, cartVars, stdinLock, uids, pcL, permit, lineChan,
                   lineRxClosed, lineTxDropped, hwVars, cardChan, cardRxDropped,
                   stop, historySaved, lineSeen, cardSeen, ghostVars>>

\* a uid arrives in the card channel while the dispatcher waits on it
DirectScan ==
    /\ pcM \in {"select", "regcard"}
    /\ nScans < MaxScans
    /\ HasCapacity(cardChan, FALSE)
    /\ \E u \in DirectUids :
          cardChan' = chan_send(cardChan, [uid |-> u, seq |-> nScans + 1])
    /\ nScans' = nScans + 1
    /\ UNCHANGED <<ledgerVars, cartVars, stdinLock, pcM, buffer, uids, lineVars,
                   lineChan, pcH, target, cardTxDropped, cardRxDropped, stop,
                   historySaved, lineSeen, cardSeen, ghostVars>>

DispatchNext ==
    \/ DirectLine
    \/ DirectScan
    \/ MainRecvCard
    \/ CmdShow
    \/ CmdAdduser
    \/ CmdDeposit
    \/ CmdAbort
    \/ CmdCash
    \/ CmdBarcode
    \/ CmdAccount
    \/ CmdRegcard
    \/ MainRegcardRecv

DispatchSpec == Init /\ [][DispatchNext]_vars

(***************************************************************************)
(* Properties.                                                             *)
(***************************************************************************)
IsPrefix(s, t) == Len(s) <= Len(t) /\ SubSeq(t, 1, Len(s)) = s

RECURSIVE DepositSum(_, _)
\* the sum of the amounts of the Deposit transactions of account id
DepositSum(txs, id) ==
    IF txs = <<>> THEN 0
    ELSE (IF Head(txs).actor = ActorUser(id) /\ Head(txs).transaction.type = "Deposit"
          THEN Head(txs).transaction.total ELSE 0) + DepositSum(Tail(txs), id)

RECURSIVE PurchaseSum(_, _)
\* the sum of the totals of the Purchase transactions of account id
PurchaseSum(txs, id) ==
    IF txs = <<>> THEN 0
    ELSE (IF Head(txs).actor = ActorUser(id) /\ Head(txs).transaction.type = "Purchase"
          THEN Head(txs).transaction.total ELSE 0) + PurchaseSum(Tail(txs), id)

\* C1: every settlement the dispatcher is given (a commit to an account, typed
\* or by card, a cash settle, a deposit) that did not report an error is in the
\* ledger exactly once: the log holds one transaction per such settlement, no
\* more and no fewer.
C1_ExactlyOnce == Len(file.transactions) = issued - failed

\* the step in which the dispatcher takes up the typed id of an existing
\* account, with no arguments, while a cart is in progress
TypedCommitStep ==
    /\ Dispatching
    /\ arm = "account"
    /\ args = <<>>
    /\ command \in DOMAIN file.users
    /\ cart.some
    /\ issued' = issued + 1

\* C2: the typed commit completes: the log gains exactly one Purchase with the
\* account as actor and the cart total, the balance goes down by that total,
\* the cart is gone and the loop is back at its select; or the ledger operation
\* failed, and then the cart is as it was and the loop is back at its select.
C2_TypedCommitCompletes ==
    [][TypedCommitStep =>
          \/ /\ file'.transactions =
                    Append(file.transactions,
                           Transaction(ActorUser(command), Purchase(cart.v)))
             /\ file'.users[command].balance =
                    file.users[command].balance - total(cart.v)
             /\ cart' = None
             /\ pcM' = "select"
          \/ /\ file' = file
             /\ failed' = failed + 1
             /\ cart' = cart
             /\ pcM' = "select"]_vars

\* what a handler leaves of the ledger, the cart and the loop
Effect(st) == [file |-> st.file, cart |-> st.cart, pcM |-> st.pcM]

\* C3: with a cart in progress, the scan of a card bound to account A and the
\* typed id of A leave the same ledger, the same cart and the loop at the same
\* place.
C3_ScanEqualsTyped ==
    \A u \in ScanUids : \A id \in card_holders(file, uid_string(u)) :
        (pcM = "select" /\ cart.some /\ cartLock = "free") =>
            Effect(card_branch(MainState, u, id, <<TRUE, TRUE, TRUE>>))
                = Effect(account_arm(MainState, id, <<>>, <<TRUE, TRUE, TRUE>>))

\* the step in which the dispatch loop takes a scan from the card channel
\* while no cart is in progress
IdleScanStep ==
    /\ pcM = "select"
    /\ ~cart.some
    /\ cardChan # <<>>
    /\ cardSeen' # cardSeen

\* C4: a scan handled while the cart is Idle changes neither the ledger file
\* nor the cart (the in-memory copy is at most reloaded from the file), and
\* the loop goes on, whether or not the uid is bound.
C4_IdleScanReadOnly ==
    [][IdleScanStep =>
          /\ file' = file
          /\ mem' \in {mem, file}
          /\ cart' = cart
          /\ cartLock' = cartLock
          /\ pcM' = "select"]_vars

\* C4 witness: the two lines typed were adduser and regcard, the card was
\* bound by the first two scans and the third scan was handled by the loop, so
\* it was handled while idle and with its uid bound
C4_Witness ==
    /\ nLines = 2
    /\ Len(cardSeen) = 3
    /\ pcM = "select"
    /\ ~cart.some
    /\ \E u \in ScanUids : card_holders(file, uid_string(u)) # {}

\* C5: in the ledger, the balance of every account is the sum of its deposits
\* minus the sum of its purchases.
C5_BalanceIsSignedSum ==
    \A id \in DOMAIN file.users :
        file.users[id].balance =
            DepositSum(file.transactions, id) - PurchaseSum(file.transactions, id)

\* C6: every successful apply_cart_to_user(id, c) appends exactly one Purchase
\* of id with the cart's total and takes exactly that total off the balance of
\* id (so N calls append N purchases and take off the sum of the N totals).
C6_PurchaseStep ==
    [][\A id \in AccountIds, c \in Carts :
          (/\ apply_cart_to_user(mem, file, id, c, TRUE, TRUE).ok
           /\ mem' = apply_cart_to_user(mem, file, id, c, TRUE, TRUE).mem
           /\ file' = apply_cart_to_user(mem, file, id, c, TRUE, TRUE).file
           /\ file' # file)
          => /\ file'.transactions =
                    Append(file.transactions,
                           Transaction(ActorUser(id), Purchase(c)))
             /\ file'.users[id].balance = file.users[id].balance - total(c)]_vars

\* C7: the log in the ledger only grows at its end, whatever operation runs,
\* and DB::transactions returns it in that order.
C7_LogAppendOnly ==
    [][/\ IsPrefix(file.transactions, file'.transactions)
       /\ transactions(mem', file', TRUE).val = file'.transactions]_vars

\* C7 witness: a log of two transactions of different kinds
C7_Witness ==
    /\ Len(file.transactions) = 2
    /\ file.transactions[1].transaction.type = "Deposit"
    /\ file.transactions[2].transaction.type = "Purchase"

\* C8: in the ledger, every card uid is bound to at most one account.
C8_CardUnique ==
    \A uid \in CardUids : Cardinality(card_holders(file, uid)) <= 1

\* the shutdown is complete: the hardware producer has left its loop, the
\* dispatch loop has ended and the history is saved
ShutdownDone == pcH = "done" /\ pcM = "done" /\ historySaved

\* C9: once the line producer has seen end-of-input (the stop flag is set), the
\* shutdown goes on until it is complete: the program is never left, short of
\* that, in a state that no step of any thread or task can change.
C9_ShutdownCompletes == stop => (ShutdownDone \/ ENABLED <<Next>>_vars)

\* the sequence 1, 2, ..., n
UpTo(n) == [i \in 1..n |-> i]

\* C10: each channel holds at most one item (a reserved slot counts), and the
\* items of each source reach the dispatch loop in the order produced, each
\* once, none missing: what was received is 1..n, and the items produced and
\* not yet received are in the channel or in the producer's hand (for scans,
\* as long as main has not returned and dropped its receiver).
C10_ChannelOrder ==
    /\ Len(lineChan) + (IF permit THEN 1 ELSE 0) <= 1
    /\ Len(cardChan) <= 1
    /\ lineSeen = UpTo(Len(lineSeen))
    /\ cardSeen = UpTo(Len(cardSeen))
    /\ Len(lineSeen) + Len(lineChan) = nLines
    /\ lineChan # <<>> => lineChan[1].seq = nLines
    /\ ~cardRxDropped =>
          Len(cardSeen) + Len(cardChan) + (IF pcH = "send" THEN 1 ELSE 0) = nScans
    /\ cardChan # <<>> => cardChan[1].seq = Len(cardSeen) + 1

\* C10 witness: lines and scans were received interleaved, every one of them
C10_Witness ==
    /\ Len(lineSeen) = MaxLines
    /\ Len(cardSeen) = MaxScans

\* the literal patterns of `match command`: the control commands
ControlCommands ==
    { s_hilfe, s_help, s_qmark, s_clear, s_reload, s_products, s_adduser,
      s_regcard, s_deposit, s_users, s_deposits, s_purchases, s_abort, s_cancel,
      s_cash }

\* the step in which the dispatcher handles a typed token that has no arguments
TokenStep == Dispatching /\ args = <<>> /\ pcM' # pcM

\* the token was handled as a control command: not as a barcode, an account id
\* or an unknown command
ControlEffect ==
    out'.msg \notin {"Invalid barcode", "Adding to cart", "Unknown product", "User",
                     "Charged to user", "Error, unable to charge user",
                     "Unknown command"}

\* scan semantics: a catalogued product with a valid checksum joins the cart
\* (a new cart if there was none), anything else is reported and changes
\* nothing; the ledger is not touched
ScanEffect ==
    LET b == try_parse(command).v IN
    /\ file' = file
    /\ pcM' = "select"
    /\ IF check_digit(b) /\ b \in DOMAIN product_store
       THEN /\ cart'.some
            /\ cart'.v.products =
                   Append(IF cart.some THEN cart.v.products ELSE <<>>,
                          product_store[b])
            /\ out'.msg = "Adding to cart"
       ELSE /\ cart' = cart
            /\ out'.msg \in {"Invalid barcode", "Unknown product"}

\* account semantics (the ledger file was readable): info if idle, a commit
\* attempted if a cart is in progress
AccountEffect ==
    ioFails' = ioFails =>
        IF ~cart.some
        THEN /\ file' = file
             /\ cart' = cart
             /\ out' = Said("User", "", command)
             /\ pcM' = "select"
        ELSE issued' = issued + 1

UnknownEffect ==
    /\ out' = Said("Unknown command", "", command)
    /\ cart' = cart
    /\ file' = file
    /\ issued' = issued
    /\ pcM' = "select"

RejectedScanStep ==
    /\ TokenStep
    /\ command \notin ControlCommands
    /\ try_parse(command).some
    /\ \/ ~check_digit(try_parse(command).v)
       \/ try_parse(command).v \notin DOMAIN product_store

\* C12: a token that parses as a barcode but fails its checksum, or passes it
\* but is not in the catalog, leaves the cart (none stays none, a cart keeps
\* its products) and the ledger (file and in-memory copy) as they were, and
\* the error is reported: "Invalid barcode", respectively "Unknown product".
C12_RejectedScan ==
    [][RejectedScanStep =>
          /\ cart' = cart
          /\ file' = file
          /\ mem' = mem
          /\ pcM' = "select"
          /\ out' = IF ~check_digit(try_parse(command).v)
                    THEN Said("Invalid barcode", "", <<>>)
                    ELSE Said("Unknown product", "", <<>>)]_vars

\* C12 witness: three lines were typed, one of them a catalogued product and
\* the last a barcode unknown to the catalog; the cart still holds the one
\* product and the ledger is empty
C12_Witness ==
    /\ nLines = 3
    /\ pcM = "select"
    /\ cart.some
    /\ Len(cart.v.products) = 1
    /\ out = Said("Unknown product", "", <<>>)
    /\ file = EmptyDB

\* the prices of the products in a cart
prices(c) == [i \in 1..Len(c.products) |-> c.products[i].price]

\* C13: whenever there is a cart, Cart::total() is the sum of the prices of
\* the products in it; abort leaves no cart, and the cart that the next scan
\* opens holds that scan's product and nothing else.
C13_CartTotal ==
    [][/\ cart'.some => total(cart'.v) = SumSeq(prices(cart'.v))
       /\ (Dispatching /\ arm = "abort" /\ pcM' # pcM) => cart' = None
       /\ (~cart.some /\ cart'.some) =>
             /\ Dispatching
             /\ cart'.v.products = <<product_store[try_parse(command).v]>>]_vars

\* the step in which the dispatcher handles the command cash
CashStep == Dispatching /\ command = s_cash /\ pcM' # pcM

\* C14: cash with a cart in progress appends exactly one Purchase with actor
\* Cash and the cart's total, changes no account, and leaves no cart; when the
\* ledger operation fails the ledger file and the cart stay as they were; with
\* no cart it reports "Nothing in cart" and changes neither cart nor ledger.
\* In every case the loop goes on.
C14_CashSettle ==
    [][CashStep =>
          /\ pcM' = "select"
          /\ IF ~cart.some
             THEN /\ out' = Said("Nothing in cart", "", <<>>)
                  /\ cart' = cart
                  /\ file' = file
                  /\ mem' = mem
             ELSE \/ /\ file'.transactions =
                            Append(file.transactions,
                                   [actor |-> ActorCash,
                                    transaction |->
                                        [type |-> "Purchase",
                                         products |-> cart.v.products,
                                         total |-> total(cart.v),
                                         method |-> "-"]])
                     /\ file'.users = file.users
                     /\ cart' = None
                     /\ out' = Said("Please put in the cash box", "", <<>>)
                  \/ /\ file' = file
                     /\ cart' = cart
                     /\ ioFails' = ioFails + 1
                     /\ out' = Said("Error, unable to charge", "io", <<>>)]_vars

\* C14 witness: an account exists and a cart of one product was settled in
\* cash: the log is that one Cash purchase, no cart is in progress
C14_Witness ==
    /\ s_alice \in DOMAIN file.users
    /\ Len(file.transactions) = 1
    /\ file.transactions[1].actor = ActorCash
    /\ file.transactions[1].transaction.total = 150
    /\ ~cart.some
    /\ out = Said("Please put in the cash box", "", <<>>)

\* the step in which deposit, its prompts answered, calls deposit_user
DepositStep ==
    /\ Dispatching
    /\ command = s_deposit
    /\ args # <<>>
    /\ issued' = issued + 1

\* C15: a deposit of amount a with method m to an existing account raises its
\* balance by exactly a, appends exactly one Deposit{a, m} of that account and
\* leaves every other account as it was (or a file operation fails and the
\* ledger is unchanged); a deposit to an id that does not exist is an error,
\* balances and log unchanged.
C15_Deposit ==
    [][DepositStep =>
          IF args[1] \in DOMAIN file.users
          THEN \/ \E a \in DepositAmounts, m \in DepositMethods :
                     /\ file'.transactions =
                            Append(file.transactions,
                                   [actor |-> ActorUser(args[1]),
                                    transaction |->
                                        [type |-> "Deposit", products |-> <<>>,
                                         total |-> a, method |-> m]])
                     /\ file'.users =
                            [file.users EXCEPT ![args[1]].balance = @ + a]
                     /\ out' = Said("Deposited applied to user", "", args[1])
               \/ /\ file' = file
                  /\ ioFails' = ioFails + 1
                  /\ out' = Said("Error, unable to deposit", "io", <<>>)
          ELSE /\ file' = file
               /\ out'.msg = "Error, unable to deposit"
               /\ out'.err \in {"does not exist", "io"}]_vars

\* the step in which adduser is given the id of an account that exists
AdduserExistingStep ==
    /\ Dispatching
    /\ command = s_adduser
    /\ args # <<>>
    /\ args[1] \in DOMAIN file.users
    /\ pcM' # pcM

\* C16: adding an account whose id exists is an error ("already exists", or
\* the failure of the file operation) and leaves the ledger, that account's
\* balance, cards and transactions included, as it was; and no step of any
\* operation removes an account.
C16_AddExisting ==
    [][/\ AdduserExistingStep =>
             /\ file' = file
             /\ out'.msg = "Error, unable to add user"
             /\ IF ioFails' = ioFails
                THEN out'.err = "already exists" /\ mem' = file
                ELSE out'.err = "io" /\ mem' = mem
       /\ DOMAIN file.users \subseteq DOMAIN file'.users]_vars

\* C16 witness: alice was added, got a deposit, and was added again: the
\* second adduser was refused and her balance and her deposit are still there
C16_Witness ==
    /\ out = Said("Error, unable to add user", "already exists", <<>>)
    /\ s_alice \in DOMAIN file.users
    /\ file.users[s_alice].balance = 500
    /\ Len(file.transactions) = 1

\* the control-command keywords that may not be account ids
ReservedIds ==
    { s_help, s_qmark, s_clear, s_reload, s_products, s_adduser, s_deposit,
      s_users, s_deposits, s_purchases, s_abort, s_cancel, s_cash, s_regcard,
      s_delcard }

\* the step in which adduser is given a reserved id
AdduserReservedStep ==
    /\ Dispatching
    /\ command = s_adduser
    /\ args # <<>>
    /\ args[1] \in ReservedIds
    /\ pcM' # pcM

\* C17: no account has a control-command keyword as its id, after any step;
\* adduser with such an id reports that the id is forbidden and touches
\* neither the ledger file nor the store's in-memory copy.
C17_ReservedIds ==
    [][/\ AdduserReservedStep =>
             /\ file' = file
             /\ mem' = mem
             /\ ioFails' = ioFails
             /\ out' = Said("Error, user ID is forbidden", "", <<>>)
       /\ DOMAIN file'.users \cap ReservedIds = {}]_vars

\* C17 witness: adduser was refused for a reserved id, after it had created
\* an account with an id that is not reserved
C17_Witness ==
    /\ out = Said("Error, user ID is forbidden", "", <<>>)
    /\ DOMAIN file.users # {}

\* the step in which register_card receives its second scan
RegcardSecondScan ==
    /\ pcM = "regcard"
    /\ Len(uids) = 1
    /\ cardChan # <<>>
    /\ uids' = <<>>

\* C18: when the two scans of regcard differ the ledger is unchanged; when
\* they match, the uid is bound to account <id> in the persisted ledger, or
\* an error is reported (the account does not exist, or the write failed).
C18_Regcard ==
    [][RegcardSecondScan =>
          LET first  == uids[1]
              second == chan_recv(cardChan).msg.uid
              id     == args[1]
          IN  IF first # second
              THEN file' = file /\ mem' = mem
              ELSE \/ /\ id \in DOMAIN file'.users
                      /\ \E c \in file'.users[id].cards : c[1] = uid_string(first)
                   \/ /\ out'.msg = "Error, failed to write the card information to your user"
                      /\ out'.err = "does not exist" => id \notin DOMAIN mem.users
                      /\ out'.err = "does not exist" => file' = file]_vars

\* the step in which the dispatcher handles 'delcard <id> <name>'
DelcardStep ==
    /\ Dispatching
    /\ command = s_delcard
    /\ Len(args) > 1
    /\ pcM' # pcM

\* the bindings of account id that the card name (or uid) key matches
MatchingCards(id, key) ==
    IF id \in DOMAIN file.users
    THEN { c \in file.users[id].cards : c[1] = key \/ c[2] = key }
    ELSE {}

\* C19: 'delcard <id> <name>' is handled as a control command: it removes a
\* matching card binding from account <id>, and when no card matches it
\* reports 'no matching card' and leaves the ledger unchanged.
C19_Delcard ==
    [][DelcardStep =>
          LET id  == args[1]
              key == join(Tail(args))
          IN  /\ arm # "account"
              /\ IF MatchingCards(id, key) # {}
                 THEN /\ id \in DOMAIN file'.users
                      /\ \E c \in MatchingCards(id, key) :
                            c \notin file'.users[id].cards
                 ELSE /\ out'.msg = "no matching card"
                      /\ file' = file]_vars

\* the text is made of decimal digits only
AllDigits(t) == \A i \in 1..Len(t) : \E d \in 1..10 : t[i] = DigitChars[d]

\* C20: parsing a text of decimal digits of length 6, 8, 12, 13 or 14 gives a
\* match that displays as exactly that text; a text of another length, or
\* with a character that is not a digit, gives no match.
C20_Codec ==
    [][CodecParse =>
          IF AllDigits(buffer) /\ Len(buffer) \in {6, 8, 12, 13, 14}
          THEN out' = Said("Some", "", buffer)
          ELSE out' = Said("None", "", <<>>)]_vars

\* the number of digits of a symbology
DigitsOf(kind) ==
    IF kind = "Ean13" THEN 13 ELSE IF kind = "Ean8" THEN 8
    ELSE IF kind = "UpcA" THEN 12 ELSE 6

\* the weight of the digit at 0-based index i: 3 for the odd indices, and for
\* the even ones in the 8-digit symbology
Weight(kind, i) == IF (i % 2 = 1) # (kind = "Ean8") THEN 3 ELSE 1

\* the weighted sum over all digits
WeightedSum(kind, digits) ==
    SumSeq([i \in 1..Len(digits) |-> Weight(kind, i - 1) * digits[i]])

\* C21: check_digit() is true exactly when the digit list has the length of
\* its symbology and the weighted sum over all its digits is 0 modulo 10
\* (weight 3 on one index parity, on the other parity for 8 digits); it is
\* true for 4006381333931, and false for a list of the wrong length.
C21_CheckDigit ==
    [][CheckDigit =>
          LET b == out'.barcode
          IN  /\ out'.valid <=>
                    /\ Len(b.digits) = DigitsOf(b.kind)
                    /\ WeightedSum(b.kind, b.digits) % 10 = 0
              /\ (b.kind = "Ean13" /\ b.digits = int_digits(s_ean13).v)
                    => out'.valid
              /\ Len(b.digits) # DigitsOf(b.kind) => ~out'.valid]_vars

\* C21 witness: the checksum of 4006381333931 was computed and is true
C21_Witness ==
    out = Checked([kind |-> "Ean13", digits |-> int_digits(s_ean13).v], TRUE)

\* the barcode with its final digit replaced by f
WithFinal(b, f) == [b EXCEPT !.digits[Len(b.digits)] = f]

\* the final digits other than the barcode's own
OtherFinals(b) == (0..9) \ {b.digits[Len(b.digits)]}

\* C22 as stated: for an identity of any symbology, every replacement of
\* the final digit by a different digit changes the result of check_digit().
C22_FinalDigitFlips ==
    [][CheckDigit =>
          LET b == out'.barcode
          IN  Len(b.digits) = DigitsOf(b.kind) =>
                 \A f \in OtherFinals(b) :
                    check_digit(WithFinal(b, f)) # out'.valid]_vars

\* C22 amended: when check_digit() is true every replacement of the final
\* digit by a different digit makes it false, and when it is false exactly
\* one replacement of the final digit makes it true.
C22_FinalDigitDecides ==
    [][CheckDigit =>
          LET b == out'.barcode
              good == { f \in OtherFinals(b) : check_digit(WithFinal(b, f)) }
          IN  Len(b.digits) = DigitsOf(b.kind) =>
                 IF out'.valid THEN good = {} ELSE Cardinality(good) = 1]_vars

\* C22 witness: the checksum of the 8-digit code 96385074 was computed and
\* is true
C22_Witness ==
    out = Checked([kind |-> "Ean8", digits |-> int_digits(s_ean8).v], TRUE)

\* C23: no typed command and no scanned uid ends the dispatch loop or the
\* process: the loop never panics and never stops for good inside a handler,
\* it always comes back to accept the next event.
C23_LoopGoesOn == pcM \notin {"panicked", "blocked"}

\* the ledgers that one mutating operation, run on a copy reloaded from the
\* file f and saved, can leave in the file
OneMutationOf(f) ==
    { apply_cart_to_user(f, f, id, c, TRUE, TRUE).file :
        id \in AccountIds, c \in Carts }
    \cup { apply_cart_to_cash(f, f, c, TRUE, TRUE).file : c \in Carts }
    \cup { deposit_user(f, f, id, amount, method, TRUE, TRUE).file :
             id \in AccountIds, amount \in DepositAmounts,
             method \in DepositMethods }
    \cup { add_user(f, f, id, TRUE, TRUE).file : id \in AccountIds }
    \cup { add_card_to_user(f, f, id, name, uid, TRUE).file :
             id \in AccountIds, name \in {Some(s_tea)}, uid \in CardUids }
    \cup { add_card_to_user(f, f, id, None, uid, TRUE).file :
             id \in AccountIds, uid \in { u \in CardUids : Len(u) >= 5 } }

\* C24: every mutating ledger operation reloads the state from the file,
\* mutates that copy and saves the whole of it: what a call writes is the
\* file as it was, with the one mutation of this call, and it is the whole
\* in-memory copy.
C24_ReloadMutateSave ==
    [][file' # file => (file' \in OneMutationOf(file) /\ file' = mem')]_vars

\* C25: an operation that fails on load or on save leaves the ledger as it
\* was, and its mutation is never written by a later operation: the step of
\* a failed file operation leaves the file unchanged, and the file never
\* holds more transactions than settlements that reported success.
C25_FailedOpLeavesNoTrace ==
    [][/\ ioFails' > ioFails => file' = file
       /\ Len(file'.transactions) <= issued' - failed']_vars

\* both callers' operations returned Ok
BothOk == \A c \in Callers : calls.of[c].pc = "done" /\ calls.of[c].ok

\* the file after operation p and then operation q, one after the other
InOrder(f, p, q) ==
    LET g == Call(p, f, f, TRUE, TRUE).file IN Call(q, g, g, TRUE, TRUE).file

\* C26: when two mutating operations run concurrently and both succeed, the
\* file holds what one of the two sequential orders of the two operations
\* leaves, with both mutations in it.
C26_Serializable ==
    BothOk =>
        file \in { InOrder(calls.base, calls.of[1].op, calls.of[2].op),
                   InOrder(calls.base, calls.of[2].op, calls.of[1].op) }

\* C27: once the stop flag is set the hardware producer leaves its loop,
\* whatever the dispatch loop and the card channel are doing: with the flag
\* set, the producer has returned, or it can take a step, or what it waits
\* for is a dispatch loop that is still running (it is never left waiting
\* for a loop that has stopped for good).
C27_HwExits ==
    stop => \/ pcH = "done"
            \/ ENABLED <<HardwareProducer>>_vars
            \/ pcM \notin {"blocked"}

\* C28 as stated: no step of the line producer or of the hardware producer
\* reads, writes or locks the cart.
C28_CartOnlyDispatch ==
    [][(LineProducer \/ HardwareProducer) =>
          (~LinePrompt /\ cart' = cart /\ cartLock' = cartLock)]_vars

\* C28 amended: the producers never write the cart and never keep its lock
\* (the line producer locks it and looks whether it is empty, to choose its
\* prompt; the hardware producer does not touch it), and the dispatch loop
\* takes up an event only at its select, with no handler in progress.
C28_CartWrittenByDispatchOnly ==
    [][/\ (LineProducer \/ HardwareProducer) =>
             (cart' = cart /\ cartLock' = cartLock)
       /\ HardwareProducer => ~LinePrompt
       /\ (cart' # cart \/ cartLock' # cartLock) => pcM \in {"select", "history"}
       /\ (lineSeen' # lineSeen \/ cardSeen' # cardSeen) =>
             pcM \in {"select", "regcard"}]_vars

\* C28 witness: two typed barcodes are in the cart and the line producer is at
\* its third readline: it chose that prompt while the cart was in progress,
\* and the cart is as the dispatch loop left it
C28_Witness ==
    /\ pcL = "readline"
    /\ nLines = 2
    /\ cart.some
    /\ Len(cart.v.products) = 2

\* C29: whenever the dispatch loop waits for its next event the cart is
\* absent or holds at least one product; a cart comes into being only in the
\* dispatch of a scanned code that passes the checksum and is in the catalog;
\* a successful commit, an abort and a successful cash settle leave no cart.
C29_CartLifetime ==
    [][/\ pcM' = "select" => (~cart'.some \/ Len(cart'.v.products) >= 1)
       /\ (~cart.some /\ cart'.some) =>
             /\ Dispatching
             /\ arm = "barcode"
             /\ check_digit(try_parse(command).v)
             /\ try_parse(command).v \in DOMAIN product_store
       /\ (out' # out /\ out'.msg = "Charged to user") => ~cart'.some
       /\ (Dispatching /\ arm = "abort" /\ pcM' # pcM) => ~cart'.some
       /\ (out' # out /\ out'.msg = "Please put in the cash box") =>
             ~cart'.some]_vars

\* C30: once the dispatch loop has taken a typed line from the line channel
\* it never waits for the editor lock while the line producer holds it in
\* its next readline: the dispatch of the line goes on without further input.
C30_DispatchNeedsNoInput ==
    pcM = "history" => ~(stdinLock = "line" /\ pcL = "readline")


\* the step in which the dispatcher handles a typed token without arguments
\* that is the id of an account of the ledger
TypedIdStep ==
    /\ Dispatching
    /\ args = <<>>
    /\ command \in DOMAIN file.users
    /\ pcM' # pcM

\* C31: every account that adduser created is addressed by typing its id with
\* no arguments, whatever its characters: while idle the id shows the
\* account's info, and with a cart in progress the commit to that account is
\* attempted (the ledger file being readable).
C31_IdAddressesAccount ==
    [][(TypedIdStep /\ ioFails' = ioFails) =>
          IF cart.some
          THEN issued' = issued + 1
          ELSE out' = Said("User", "", command)]_vars


\* the step in which register_card, after two equal scans of the card with
\* the bytes b, writes the card to the account id
BindStep(id, b) ==
    /\ pcM = "regcard"
    /\ uids = <<b>>
    /\ cardChan # <<>>
    /\ chan_recv(cardChan).msg.uid = b
    /\ args[1] = id
    /\ file' # file

\* C32: the key that the card branch and register_card derive from a card's
\* uid bytes tells the cards apart: binding one card to an account makes no
\* different card resolve to that account, so the scan of a card finds only an
\* account the card itself was bound to.
C32_KeyTellsCardsApart ==
    [][\A id \in DOMAIN file.users : \A b \in DirectUids :
          BindStep(id, b) =>
             \A v \in DirectUids \ {b} :
                id \in card_holders(file', uid_string(v))
                   => id \in card_holders(file, uid_string(v))]_vars

====
